---------------------------- MODULE Spec2Model ----------------------------
(* Model of the Shopify Terraform provider.  The metaobject-definition     *)
(* resource: the field-definition reconciliation performed by Update, the  *)
(* two sequential remote requests it issues, and the conversion of the     *)
(* remote's answer back into the resource model.  The other lifecycle      *)
(* handlers of the metaobject-definition, metafield-definition and page    *)
(* resources, and the provider's Configure.                                *)
EXTENDS Integers, Sequences, FiniteSets, TLC

VARIABLES
    state,                      \* stored field_definitions (req.State / resp.State)
    data,                       \* planned field_definitions (req.Plan -> data.FieldDefinitions)
    remote,                     \* the remote's field definitions, a map key -> field
    pc,                         \* position of Update: "idle", "req1", "req2", "done";
                                \* of every other handler: "start", "returned"
    oldFieldDefinitions,        \* local of Update: the prior snapshot read from state
    fieldDefinitions1stReq,     \* local of Update: operations of the first request
    fieldDefinitions2ndReq,     \* local of Update: operations of the second request
    recreateFieldDefinitions,   \* local of Update: keys deleted and created again
    updatedMetaobjectDefinition, \* local of Update: the fields of the last answer, as returned
    updateData,                 \* local of Update: the converted answer of the last request
    sent,                       \* the requests Update has issued so far, with their outcome
    calls,                      \* the remote calls of the invocation, in order, with their outcome
    hasError,                   \* resp.Diagnostics.HasError()
    warned,                     \* tflog.Warn was called
    rpc,                        \* the handler the host has invoked
    planOrState,                \* the plan or state the host hands to a single-call handler
    answer,                     \* what the remote call of a single-call handler returned, if it did
    written,                    \* the model a single-call handler set into resp.State, if it did
    diagnostics,                \* summaries of the error diagnostics of a handler other than Update
    config,                     \* provider configuration (req.Config), five settings
    env,                        \* the environment variables of the five settings
    settings,                   \* locals of Configure: the resolved settings
    client                      \* resp.ResourceData / resp.DataSourceData hold a client

\* the variables of the handlers other than the metaobject-definition Update
aux == << rpc, planOrState, answer, written, diagnostics, config, env, settings, client >>

\* the variables only the metaobject-definition Update uses
upd == << state, data, remote, oldFieldDefinitions, fieldDefinitions1stReq,
          fieldDefinitions2ndReq, recreateFieldDefinitions,
          updatedMetaobjectDefinition, updateData, warned >>

vars == << state, data, remote, pc, oldFieldDefinitions, fieldDefinitions1stReq,
           fieldDefinitions2ndReq, recreateFieldDefinitions,
           updatedMetaobjectDefinition, updateData, sent, calls, hasError, warned,
           rpc, planOrState, answer, written, diagnostics, config, env, settings, client >>

-----------------------------------------------------------------------------
(* Bounds and input universe                                               *)

MaxFields == 2

RemoteKeys == {"a", "b"}
PlanKeys == RemoteKeys \cup {""}

-----------------------------------------------------------------------------
(* Framework values: types.String, types.Bool, Go pointers and slices      *)

StringNull == [null |-> TRUE, value |-> ""]
StringValue(s) == [null |-> FALSE, value |-> s]
ValueString(v) == v.value
NilPointer == [nil |-> TRUE, v |-> ""]
ValueStringPointer(v) == IF v.null THEN NilPointer ELSE [nil |-> FALSE, v |-> v.value]
BoolValue(b) == [null |-> FALSE, value |-> b]
ValueBool(v) == v.value

NilSlice == [nil |-> TRUE, elems |-> << >>]
Slice(s) == [nil |-> FALSE, elems |-> s]

MetafieldDefinitionValidationModel(n, v) == [Name |-> StringValue(n), Value |-> StringValue(v)]

MetaobjectFieldDefinitionModel(k, n, d, t, r, v) ==
    [Key |-> k, Name |-> n, Description |-> d, Type |-> t, Required |-> r, Validations |-> v]

\* variant: the two pointers are compared, not what they point to
DeepEqual_Pointers(x, y) == FALSE

DeepEqual(x, y) == x = y

-----------------------------------------------------------------------------
(* Conversions between the resource model and the remote's inputs          *)

RECURSIVE convertValidationModelsToValidations(_)
convertValidationModelsToValidations(validationModels) ==
    IF Len(validationModels.elems) = 0 THEN << >>
    ELSE << [Name |-> ValueString(Head(validationModels.elems).Name),
             Value |-> ValueString(Head(validationModels.elems).Value)] >>
         \o convertValidationModelsToValidations(Slice(Tail(validationModels.elems)))

RECURSIVE convertValidationsToModels(_)
convertValidationsToModels(validations) ==
    IF Len(validations) = 0 THEN NilSlice
    ELSE Slice(<< MetafieldDefinitionValidationModel(Head(validations).Name, Head(validations).Value) >>
               \o convertValidationsToModels(Tail(validations)).elems)

convertMetaobjectFieldDefinitionModelToCreateInput(model) ==
    [Key |-> ValueString(model.Key),
     Name |-> ValueStringPointer(model.Name),
     Description |-> ValueStringPointer(model.Description),
     Type |-> ValueString(model.Type),
     Required |-> ValueBool(model.Required),
     Validations |-> convertValidationModelsToValidations(model.Validations)]

\* variant: the Update input also carries the type
UpdateInput_WithType(newFieldDef) ==
    [Key |-> ValueString(newFieldDef.Key),
     Name |-> ValueStringPointer(newFieldDef.Name),
     Description |-> ValueStringPointer(newFieldDef.Description),
     Type |-> ValueString(newFieldDef.Type),
     Required |-> ValueBool(newFieldDef.Required),
     Validations |-> convertValidationModelsToValidations(newFieldDef.Validations)]

UpdateInput(newFieldDef) ==
    [Key |-> ValueString(newFieldDef.Key),
     Name |-> ValueStringPointer(newFieldDef.Name),
     Description |-> ValueStringPointer(newFieldDef.Description),
     Required |-> ValueBool(newFieldDef.Required),
     Validations |-> convertValidationModelsToValidations(newFieldDef.Validations)]

CreateOp(input) == [kind |-> "Create", key |-> input.Key, input |-> input]
UpdateOp(input) == [kind |-> "Update", key |-> input.Key, input |-> input]
DeleteOp(k) == [kind |-> "Delete", key |-> k]


-----------------------------------------------------------------------------
(* Update: the reconciliation of the planned snapshot against the prior one *)

Keys(fieldDefinitions) ==
    {ValueString(fieldDefinitions[i].Key) : i \in DOMAIN fieldDefinitions}

LastIndexOf(fieldDefinitions, k) ==
    CHOOSE i \in DOMAIN fieldDefinitions :
        /\ ValueString(fieldDefinitions[i].Key) = k
        /\ \A j \in DOMAIN fieldDefinitions :
               ValueString(fieldDefinitions[j].Key) = k => j <= i

\* oldFieldDefinitionMap: a later entry of the same key overwrites an earlier one
oldFieldDefinitionMap(fieldDefinitions) ==
    [k \in Keys(fieldDefinitions) |-> fieldDefinitions[LastIndexOf(fieldDefinitions, k)]]

MapDelete(m, k) == [x \in DOMAIN m \ {k} |-> m[x]]

TypeEqual(newFieldDef, oldFieldDef) == newFieldDef.Type = oldFieldDef.Type

\* the accumulator of the loop: the map still unmatched and the three outputs
EmptyAcc(fieldDefinitions) ==
    [map |-> oldFieldDefinitionMap(fieldDefinitions), req1 |-> << >>, req2 |-> << >>, recreate |-> << >>]

\* variant: the recreated key is not recorded
RecreateBranch_NoNotice(acc, oldFieldDef, newFieldDef) ==
    [acc EXCEPT
        !.req1 = Append(@, DeleteOp(ValueString(oldFieldDef.Key))),
        !.req2 = Append(@, CreateOp(convertMetaobjectFieldDefinitionModelToCreateInput(newFieldDef)))]

\* variant: a type change is sent as an in-place Update
RecreateBranch_AsUpdate(acc, oldFieldDef, newFieldDef) ==
    [acc EXCEPT !.req1 = Append(@, UpdateOp(UpdateInput(newFieldDef)))]

RecreateBranch(acc, oldFieldDef, newFieldDef) ==
    [acc EXCEPT
        !.req1 = Append(@, DeleteOp(ValueString(oldFieldDef.Key))),
        !.req2 = Append(@, CreateOp(convertMetaobjectFieldDefinitionModelToCreateInput(newFieldDef))),
        !.recreate = Append(@, ValueString(newFieldDef.Key))]

\* variant: the Update of a changed field is not emitted
UpdateBranch_Dropped(acc, newFieldDef) == acc

UpdateBranch(acc, newFieldDef) ==
    [acc EXCEPT !.req1 = Append(@, UpdateOp(UpdateInput(newFieldDef)))]

\* variant: the Create of a new field goes to the second request
CreateBranch_IntoSecond(acc, newFieldDef) ==
    [acc EXCEPT !.req2 = Append(@, CreateOp(convertMetaobjectFieldDefinitionModelToCreateInput(newFieldDef)))]

\* variant: the Create of a new field is put in front of the first request
CreateBranch_Prepend(acc, newFieldDef) ==
    [acc EXCEPT !.req1 = << CreateOp(convertMetaobjectFieldDefinitionModelToCreateInput(newFieldDef)) >> \o @]

CreateBranch(acc, newFieldDef) ==
    [acc EXCEPT !.req1 = Append(@, CreateOp(convertMetaobjectFieldDefinitionModelToCreateInput(newFieldDef)))]

\* variant: every changed field is recreated, whether its type changed or not
MatchedBranch_AlwaysRecreate(acc, oldFieldDef, newFieldDef) ==
    IF DeepEqual(oldFieldDef, newFieldDef) THEN acc
    ELSE RecreateBranch(acc, oldFieldDef, newFieldDef)

\* variant: a matched field is updated without comparing it with the prior one
MatchedBranch_NoEqualCheck(acc, oldFieldDef, newFieldDef) ==
    IF ~TypeEqual(newFieldDef, oldFieldDef) THEN RecreateBranch(acc, oldFieldDef, newFieldDef)
    ELSE UpdateBranch(acc, newFieldDef)

MatchedBranch(acc, oldFieldDef, newFieldDef) ==
    IF DeepEqual(oldFieldDef, newFieldDef) THEN acc
    ELSE IF ~TypeEqual(newFieldDef, oldFieldDef) THEN RecreateBranch(acc, oldFieldDef, newFieldDef)
    ELSE UpdateBranch(acc, newFieldDef)

\* variant: a matched key is not removed from the map
LoopBody_NoMapDelete(acc, newFieldDef) ==
    LET k == ValueString(newFieldDef.Key) IN
    IF k \in DOMAIN acc.map
    THEN MatchedBranch(acc, acc.map[k], newFieldDef)
    ELSE CreateBranch(acc, newFieldDef)

LoopBody(acc, newFieldDef) ==
    LET k == ValueString(newFieldDef.Key) IN
    IF k \in DOMAIN acc.map
    THEN MatchedBranch([acc EXCEPT !.map = MapDelete(acc.map, k)], acc.map[k], newFieldDef)
    ELSE CreateBranch(acc, newFieldDef)

RECURSIVE ReconcileLoop(_, _)
ReconcileLoop(acc, fieldDefinitions) ==
    IF fieldDefinitions = << >> THEN acc
    ELSE ReconcileLoop(LoopBody(acc, Head(fieldDefinitions)), Tail(fieldDefinitions))

\* all orders in which a Go map of the given key set can be ranged over
RECURSIVE MapRangeOrders(_)
MapRangeOrders(ks) ==
    IF ks = {} THEN { << >> }
    ELSE UNION { { << k >> \o rest : rest \in MapRangeOrders(ks \ {k}) } : k \in ks }

RECURSIVE RemovalDeletes(_, _)
RemovalDeletes(m, order) ==
    IF order = << >> THEN << >>
    ELSE << DeleteOp(ValueString(m[Head(order)].Key)) >> \o RemovalDeletes(m, Tail(order))

-----------------------------------------------------------------------------
(* The remote API collaborator (client.UpdateMetaobjectDefinition)          *)

ApplyOperation(r, op) ==
    IF op.kind = "Create" THEN
        [k \in DOMAIN r \cup {op.key} |-> IF k = op.key THEN op.input ELSE r[k]]
    ELSE IF op.kind = "Update" THEN
        [k \in DOMAIN r |->
            IF k = op.key
            THEN [r[k] EXCEPT !.Name = op.input.Name,
                              !.Description = op.input.Description,
                              !.Required = op.input.Required,
                              !.Validations = op.input.Validations]
            ELSE r[k]]
    ELSE [k \in DOMAIN r \ {op.key} |-> r[k]]

RECURSIVE ApplyOperations(_, _)
ApplyOperations(r, ops) ==
    IF ops = << >> THEN r
    ELSE ApplyOperations(ApplyOperation(r, Head(ops)), Tail(ops))

\* the remote refuses a batch that creates a key it already holds (also one the
\* same batch deletes or creates), that has an empty key, or that updates or
\* deletes a key it does not hold
RECURSIVE BatchAccepted(_, _, _)
BatchAccepted(r, taken, ops) ==
    IF ops = << >> THEN TRUE
    ELSE LET op == Head(ops) IN
         /\ op.key # ""
         /\ IF op.kind = "Create" THEN op.key \notin taken ELSE op.key \in DOMAIN r
         /\ BatchAccepted(ApplyOperation(r, op), taken \cup {op.key}, Tail(ops))

RemoteAccepts(r, ops) == BatchAccepted(r, DOMAIN r, ops)

PointerToString(p) == IF p.nil THEN "" ELSE p.v

\* shopify.MetaobjectFieldDefinition as the remote returns it
ResponseField(f) ==
    [Key |-> f.Key, Name |-> PointerToString(f.Name), Description |-> PointerToString(f.Description),
     Type |-> f.Type, Required |-> f.Required, Validations |-> f.Validations]

\* the answers the remote can give: its fields, in any order
Responses(r) ==
    { [i \in 1..Len(order) |-> ResponseField(r[order[i]])] : order \in MapRangeOrders(DOMAIN r) }

\* the remote holding exactly the fields of a snapshot
RemoteOf(fieldDefinitions) ==
    [k \in Keys(fieldDefinitions) |->
        convertMetaobjectFieldDefinitionModelToCreateInput(
            fieldDefinitions[LastIndexOf(fieldDefinitions, k)])]

-----------------------------------------------------------------------------
(* Conversion of the remote's answer into the resource model               *)

\* xslice.FindBy: the first element that satisfies the predicate, and whether one does
FindBy(fieldDefinitions, k) ==
    LET hits == {i \in DOMAIN fieldDefinitions : ValueString(fieldDefinitions[i].Key) = k} IN
    IF hits = {} THEN [ok |-> FALSE, v |-> StringNull]
    ELSE [ok |-> TRUE,
          v |-> fieldDefinitions[CHOOSE i \in hits : \A j \in hits : i <= j].Description]

convertMetaobjectFieldDefinitionToModel(definition, model) ==
    MetaobjectFieldDefinitionModel(
        StringValue(definition.Key),
        StringValue(definition.Name),
        IF definition.Description = "" /\ model.ok /\ model.v.null
            THEN StringNull ELSE StringValue(definition.Description),
        StringValue(definition.Type),
        BoolValue(definition.Required),
        convertValidationsToModels(definition.Validations))

\* fieldDefinitionOrderMap: key -> 0-based index, a later entry overwrites
fieldDefinitionOrderMap(fieldDefinitions) ==
    [k \in Keys(fieldDefinitions) |-> LastIndexOf(fieldDefinitions, k) - 1]

\* a Go map lookup: the zero value for a missing key
OrderOf(orderMap, k) == IF k \in DOMAIN orderMap THEN orderMap[k] ELSE 0

Less(orderMap, x, y) ==
    OrderOf(orderMap, ValueString(x.Key)) < OrderOf(orderMap, ValueString(y.Key))

IndexPermutations(n) == {f \in [1..n -> 1..n] : \A i, j \in 1..n : i # j => f[i] # f[j]}

\* sort.Slice is not stable: every arrangement without an inversion is a result
\* variant: the converted fields are left in the order of the answer
SortSlice_Unsorted(models, orderMap) == { models }

SortSlice(models, orderMap) ==
    { [i \in 1..Len(models) |-> models[f[i]]] : f \in
        { g \in IndexPermutations(Len(models)) :
            \A i, j \in 1..Len(models) :
                i < j => ~Less(orderMap, models[g[j]], models[g[i]]) } }

\* variant: only the returned fields that the supplied snapshot declares are converted
convertMetaobjectDefinitionToResourceModel_OnlyDeclared(definition, fieldDefinitions) ==
    LET declared == SelectSeq(definition, LAMBDA f : FindBy(fieldDefinitions, f.Key).ok) IN
    SortSlice(
        [i \in 1..Len(declared) |->
            convertMetaobjectFieldDefinitionToModel(declared[i], FindBy(fieldDefinitions, declared[i].Key))],
        fieldDefinitionOrderMap(fieldDefinitions))

convertMetaobjectDefinitionToResourceModel(definition, fieldDefinitions) ==
    SortSlice(
        [i \in 1..Len(definition) |->
            convertMetaobjectFieldDefinitionToModel(definition[i], FindBy(fieldDefinitions, definition[i].Key))],
        fieldDefinitionOrderMap(fieldDefinitions))

-----------------------------------------------------------------------------
(* Snapshots the host hands to Update                                       *)

BaseField(k) ==
    MetaobjectFieldDefinitionModel(StringValue(k), StringValue("Old"), StringNull,
        StringValue("single_line_text_field"), BoolValue(FALSE), NilSlice)

\* the declarations of one key: the base one and one that differs in each attribute
FieldVariants(k) ==
    { BaseField(k),
      [BaseField(k) EXCEPT !.Type = StringValue("multi_line_text_field")],
      [BaseField(k) EXCEPT !.Name = StringValue("New")],
      [BaseField(k) EXCEPT !.Name = StringNull],
      [BaseField(k) EXCEPT !.Description = StringValue("")],
      [BaseField(k) EXCEPT !.Required = BoolValue(TRUE)],
      [BaseField(k) EXCEPT !.Validations = Slice(<< >>)],
      [BaseField(k) EXCEPT !.Validations = Slice(<< MetafieldDefinitionValidationModel("min", "1") >>)] }

UniqueKeys(fieldDefinitions) ==
    \A i, j \in DOMAIN fieldDefinitions :
        ValueString(fieldDefinitions[i].Key) = ValueString(fieldDefinitions[j].Key) => i = j

SeqsUpTo(S, n) == UNION { [1..m -> S] : m \in 0..n }

\* stored snapshots were written from an answer of the remote: its keys are distinct
PriorSnapshots ==
    { s \in SeqsUpTo(UNION { FieldVariants(k) : k \in RemoteKeys }, MaxFields) : UniqueKeys(s) }

\* the schema puts no constraint on the planned keys: they may repeat or be empty
PlanSnapshots ==
    SeqsUpTo(UNION { FieldVariants(k) : k \in RemoteKeys } \cup { BaseField("") }, MaxFields)

-----------------------------------------------------------------------------
(* The single-call handlers: models, answers and conversions                *)

SingleCallHandlers ==
    { "MetaobjectDefinitionResource.Create", "MetaobjectDefinitionResource.Read",
      "MetaobjectDefinitionResource.Delete",
      "MetafieldDefinitionResource.Create", "MetafieldDefinitionResource.Read",
      "MetafieldDefinitionResource.Update", "MetafieldDefinitionResource.Delete",
      "PageResource.Create", "PageResource.Read", "PageResource.Update", "PageResource.Delete" }

\* the descriptions a plan or a state can hold, and those the remote can return
ModelDescriptions == { StringNull, StringValue(""), StringValue("D") }
RemoteDescriptions == { "", "D" }

\* field_definitions of a plan or state: distinct keys, any description
DescribedSnapshots ==
    { s \in SeqsUpTo({ [BaseField(k) EXCEPT !.Description = d] :
                            k \in RemoteKeys, d \in ModelDescriptions }, MaxFields) :
        UniqueKeys(s) }

\* MetaobjectDefinitionResourceModel: the description and the field definitions
MetaobjectDefinitionResourceModels ==
    [Description : ModelDescriptions, FieldDefinitions : DescribedSnapshots]

\* shopify.MetaobjectFieldDefinition as returned for key k with description d
ReturnedField(k, d) ==
    [Key |-> k, Name |-> "Old", Description |-> d, Type |-> "single_line_text_field",
     Required |-> FALSE, Validations |-> << >>]

\* shopify.MetaobjectDefinition as the remote may return it: any fields, in any order
MetaobjectDefinitions ==
    [Description : RemoteDescriptions,
     FieldDefinitions :
        { s \in SeqsUpTo({ ReturnedField(k, d) : k \in RemoteKeys, d \in RemoteDescriptions }, MaxFields) :
            \A i, j \in DOMAIN s : s[i].Key = s[j].Key => i = j }]

\* the description of the converted metaobject definition
\* variant: the remote's description is always taken as it is
MetaobjectDefinitionDescription_AsReturned(definition, mdata) == StringValue(definition.Description)

MetaobjectDefinitionDescription(definition, mdata) ==
    IF definition.Description = "" /\ mdata.Description.null
        THEN StringNull ELSE StringValue(definition.Description)

\* the models convertMetaobjectDefinitionToResourceModel can return for an answer
MetaobjectDefinitionResourceModelsOf(definition, mdata) ==
    { [Description |-> MetaobjectDefinitionDescription(definition, mdata), FieldDefinitions |-> f] :
        f \in convertMetaobjectDefinitionToResourceModel(definition.FieldDefinitions, mdata.FieldDefinitions) }

\* MetafieldDefinitionResourceModel: name and description
MetafieldDefinitionResourceModels ==
    [Name : { StringValue("N") }, Description : ModelDescriptions]

\* shopify.MetafieldDefinition as the remote may return it
MetafieldDefinitions == [Name : { "N" }, Description : RemoteDescriptions]

convertMetafieldDefinitionToResourceModel(definition, mstate) ==
    [Name |-> StringValue(definition.Name),
     Description |-> IF Len(definition.Description) = 0 /\ mstate.Description.null
                        THEN StringNull ELSE StringValue(definition.Description)]

\* text held character by character, for the identifiers that are parsed
Digits == << "0", "1", "2", "3", "4", "5", "6", "7", "8", "9" >>

IsDigit(c) == \E d \in DOMAIN Digits : Digits[d] = c

\* the value of a digit character
DigitValue(c) == (CHOOSE d \in DOMAIN Digits : Digits[d] = c) - 1

\* a uint64 is held as its decimal digits, most significant first, no leading zero
MaxUint64 == << 1, 8, 4, 4, 6, 7, 4, 4, 0, 7, 3, 7, 0, 9, 5, 5, 1, 6, 1, 5 >>

RECURSIVE StripZeros(_)
StripZeros(n) ==
    IF Len(n) > 1 /\ Head(n) = 0 THEN StripZeros(Tail(n)) ELSE n

Exceeds(n, m) ==
    \/ Len(n) > Len(m)
    \/ /\ Len(n) = Len(m)
       /\ \E i \in DOMAIN n : n[i] > m[i] /\ \A j \in 1..(i - 1) : n[j] = m[j]

\* variant: a leading sign is accepted and ignored
ParseUint_AcceptsSign(s) ==
    LET t == IF Len(s) > 1 /\ Head(s) \in { "+", "-" } THEN Tail(s) ELSE s IN
    IF Len(t) = 0 \/ \E i \in DOMAIN t : ~IsDigit(t[i])
    THEN [err |-> "invalid syntax", id |-> << >>]
    ELSE LET n == StripZeros([i \in DOMAIN t |-> DigitValue(t[i])]) IN
         IF Exceeds(n, MaxUint64)
         THEN [err |-> "value out of range", id |-> << >>]
         ELSE [err |-> "", id |-> n]

\* strconv.ParseUint(s, 10, 64): no sign, no underscore, at least one digit, at most 2^64 - 1
ParseUint(s) ==
    IF Len(s) = 0 \/ \E i \in DOMAIN s : ~IsDigit(s[i])
    THEN [err |-> "invalid syntax", id |-> << >>]
    ELSE LET n == StripZeros([i \in DOMAIN s |-> DigitValue(s[i])]) IN
         IF Exceeds(n, MaxUint64)
         THEN [err |-> "value out of range", id |-> << >>]
         ELSE [err |-> "", id |-> n]

\* strconv.FormatUint(id, 10)
FormatUint(id) == [i \in DOMAIN id |-> Digits[id[i] + 1]]

\* the id attribute of a page as the host can hand it over
PageIDs ==
    { [null |-> TRUE, value |-> << >>],
      [null |-> FALSE, value |-> << >>],
      [null |-> FALSE, value |-> << "7" >>],
      [null |-> FALSE, value |-> << "0", "4", "2" >>],
      [null |-> FALSE, value |-> << "-", "1" >>],
      [null |-> FALSE, value |-> << "+", "1" >>],
      [null |-> FALSE, value |-> << "1", "_", "0" >>],
      [null |-> FALSE, value |-> << "g", "i", "d", ":", "7" >>],
      [null |-> FALSE, value |-> FormatUint(MaxUint64)],
      [null |-> FALSE, value |-> FormatUint([MaxUint64 EXCEPT ![Len(MaxUint64)] = @ + 1])] }

\* PageResourceModel: id and title
PageResourceModels == [ID : PageIDs, Title : { StringValue("T"), StringValue("U") }]

\* goshopify.Page as the remote may return it
Pages == [Id : { << 7 >>, << 4, 2 >>, MaxUint64 }, Title : { "T", "U" }]

convertPageToResourceModel(page) ==
    [ID |-> [null |-> FALSE, value |-> FormatUint(page.Id)], Title |-> StringValue(page.Title)]

\* the plans and states the host can hand to a handler
ModelsOf(handler) ==
    CASE handler \in { "MetaobjectDefinitionResource.Create", "MetaobjectDefinitionResource.Read",
                       "MetaobjectDefinitionResource.Delete" } -> MetaobjectDefinitionResourceModels
      [] handler \in { "MetafieldDefinitionResource.Create", "MetafieldDefinitionResource.Read",
                       "MetafieldDefinitionResource.Update", "MetafieldDefinitionResource.Delete" }
            -> MetafieldDefinitionResourceModels
      [] OTHER -> PageResourceModels

-----------------------------------------------------------------------------
(* Provider configuration                                                   *)

SettingNames == { "shop", "api_version", "api_key", "api_secret_key", "admin_api_access_token" }

\* the order in which Configure resolves and checks the settings
SettingOrder == << "shop", "api_version", "api_key", "api_secret_key", "admin_api_access_token" >>

ConfigValues == { StringNull, StringValue(""), StringValue("v") }
EnvValues == { "", "e" }

\* os.Getenv gives "" for a variable that is not set
readOrEnvDefault(str, envValue) ==
    IF ~str.null THEN ValueString(str) ELSE envValue

RECURSIVE UnableToFind(_, _)
\* the errors added for the empty ones among the settings named by order, in that order
UnableToFind(resolved, order) ==
    IF order = << >> THEN << >>
    ELSE (IF resolved[Head(order)] = "" THEN << <<"Unable to find", Head(order)>> >> ELSE << >>)
            \o UnableToFind(resolved, Tail(order))

-----------------------------------------------------------------------------
(* The state machine                                                        *)

\* nothing of the metaobject-definition Update is in use
UpdateUnused ==
    /\ state = << >>
    /\ data = << >>
    /\ remote = RemoteOf(<< >>)
    /\ oldFieldDefinitions = << >>
    /\ fieldDefinitions1stReq = << >>
    /\ fieldDefinitions2ndReq = << >>
    /\ recreateFieldDefinitions = << >>
    /\ updatedMetaobjectDefinition = << >>
    /\ updateData = << >>
    /\ warned = FALSE

\* nothing of Configure is in use
ConfigureUnused ==
    /\ config = << >>
    /\ env = << >>
    /\ settings = << >>
    /\ client = FALSE

\* the host invokes the metaobject-definition Update with a stored and a planned snapshot
InitUpdate ==
    /\ rpc = "MetaobjectDefinitionResource.Update"
    /\ state \in PriorSnapshots
    /\ data \in PlanSnapshots
    /\ remote = RemoteOf(state)
    /\ pc = "idle"
    /\ oldFieldDefinitions = << >>
    /\ fieldDefinitions1stReq = << >>
    /\ fieldDefinitions2ndReq = << >>
    /\ recreateFieldDefinitions = << >>
    /\ updatedMetaobjectDefinition = << >>
    /\ updateData = << >>
    /\ sent = << >>
    /\ calls = << >>
    /\ hasError = FALSE
    /\ warned = FALSE
    /\ planOrState = << >>
    /\ answer = << >>
    /\ written = << >>
    /\ diagnostics = << >>
    /\ ConfigureUnused

\* the host invokes one of the single-call handlers with a plan or a state
InitHandler ==
    /\ rpc \in SingleCallHandlers
    /\ planOrState \in ModelsOf(rpc)
    /\ pc = "start"
    /\ sent = << >>
    /\ calls = << >>
    /\ hasError = FALSE
    /\ answer = << >>
    /\ written = << >>
    /\ diagnostics = << >>
    /\ UpdateUnused
    /\ ConfigureUnused

\* the host invokes the provider's Configure
InitConfigure ==
    /\ rpc = "ShopifyProvider.Configure"
    /\ config \in [SettingNames -> ConfigValues]
    /\ env \in [SettingNames -> EnvValues]
    /\ settings = << >>
    /\ client = FALSE
    /\ pc = "start"
    /\ sent = << >>
    /\ calls = << >>
    /\ hasError = FALSE
    /\ planOrState = << >>
    /\ answer = << >>
    /\ written = << >>
    /\ diagnostics = << >>
    /\ UpdateUnused

Init ==
    \/ InitUpdate
    \/ InitHandler
    \/ InitConfigure

\* variant: the Creates of the second request are collected by ranging over a map
UpdateReconcile_SecondInMapOrder ==
    /\ pc = "idle"
    /\ LET acc == ReconcileLoop(EmptyAcc(state), data) IN
       \E order \in MapRangeOrders(DOMAIN acc.map) :
          /\ oldFieldDefinitions' = state
          /\ fieldDefinitions1stReq' = acc.req1 \o RemovalDeletes(acc.map, order)
          /\ fieldDefinitions2ndReq' \in
                { [i \in DOMAIN acc.req2 |-> acc.req2[f[i]]] : f \in IndexPermutations(Len(acc.req2)) }
          /\ recreateFieldDefinitions' = acc.recreate
          /\ warned' = (Len(acc.recreate) > 0)
    /\ pc' = "req1"
    /\ UNCHANGED << state, data, remote, updatedMetaobjectDefinition, updateData, sent, hasError >>
    /\ UNCHANGED << calls, aux >>

\* variant: the recreate notice is reported as an error and Update returns
UpdateReconcile_NoticeAsError ==
    /\ pc = "idle"
    /\ LET acc == ReconcileLoop(EmptyAcc(state), data) IN
       \E order \in MapRangeOrders(DOMAIN acc.map) :
          /\ oldFieldDefinitions' = state
          /\ fieldDefinitions1stReq' = acc.req1 \o RemovalDeletes(acc.map, order)
          /\ fieldDefinitions2ndReq' = acc.req2
          /\ recreateFieldDefinitions' = acc.recreate
          /\ warned' = FALSE
          /\ hasError' = (Len(acc.recreate) > 0)
          /\ pc' = IF Len(acc.recreate) > 0 THEN "done" ELSE "req1"
    /\ UNCHANGED << state, data, remote, updatedMetaobjectDefinition, updateData, sent >>
    /\ UNCHANGED << calls, aux >>

\* variant: the removal Deletes are put in front of the loop's operations
UpdateReconcile_RemovalsFirst ==
    /\ pc = "idle"
    /\ LET acc == ReconcileLoop(EmptyAcc(state), data) IN
       \E order \in MapRangeOrders(DOMAIN acc.map) :
          /\ oldFieldDefinitions' = state
          /\ fieldDefinitions1stReq' = RemovalDeletes(acc.map, order) \o acc.req1
          /\ fieldDefinitions2ndReq' = acc.req2
          /\ recreateFieldDefinitions' = acc.recreate
          /\ warned' = (Len(acc.recreate) > 0)
    /\ pc' = "req1"
    /\ UNCHANGED << state, data, remote, updatedMetaobjectDefinition, updateData, sent, hasError >>
    /\ UNCHANGED << calls, aux >>

\* variant: Update returns without a request when there is no operation to send
UpdateReconcile_SkipsEmptyRequest ==
    /\ pc = "idle"
    /\ LET acc == ReconcileLoop(EmptyAcc(state), data) IN
       \E order \in MapRangeOrders(DOMAIN acc.map) :
          /\ oldFieldDefinitions' = state
          /\ fieldDefinitions1stReq' = acc.req1 \o RemovalDeletes(acc.map, order)
          /\ fieldDefinitions2ndReq' = acc.req2
          /\ recreateFieldDefinitions' = acc.recreate
          /\ warned' = (Len(acc.recreate) > 0)
          /\ pc' = IF acc.req1 = << >> /\ DOMAIN acc.map = {} THEN "done" ELSE "req1"
    /\ UNCHANGED << state, data, remote, updatedMetaobjectDefinition, updateData, sent, hasError >>
    /\ UNCHANGED << calls, aux >>

\* Update up to the first remote call: the reconciliation
UpdateReconcile ==
    /\ pc = "idle"
    /\ LET acc == ReconcileLoop(EmptyAcc(state), data) IN
       \E order \in MapRangeOrders(DOMAIN acc.map) :
          /\ oldFieldDefinitions' = state
          /\ fieldDefinitions1stReq' = acc.req1 \o RemovalDeletes(acc.map, order)
          /\ fieldDefinitions2ndReq' = acc.req2
          /\ recreateFieldDefinitions' = acc.recreate
          /\ warned' = (Len(acc.recreate) > 0)
    /\ pc' = "req1"
    /\ UNCHANGED << state, data, remote, updatedMetaobjectDefinition, updateData, sent, hasError >>
    /\ UNCHANGED << calls, aux >>

\* variant: Update does not return after the first call's error
FirstRequestFails_Continues ==
    /\ pc = "req1"
    /\ sent' = Append(sent, [ops |-> fieldDefinitions1stReq, ok |-> FALSE])
    /\ calls' = Append(calls, [call |-> "UpdateMetaobjectDefinition", ok |-> FALSE])
    /\ hasError' = TRUE
    /\ pc' = IF Len(fieldDefinitions2ndReq) > 0 THEN "req2" ELSE "done"
    /\ UNCHANGED << state, data, remote, oldFieldDefinitions, fieldDefinitions1stReq,
                    fieldDefinitions2ndReq, recreateFieldDefinitions,
                    updatedMetaobjectDefinition, updateData, warned >>
    /\ UNCHANGED aux

\* the first UpdateMetaobjectDefinition call returns an error
FirstRequestFails ==
    /\ pc = "req1"
    /\ sent' = Append(sent, [ops |-> fieldDefinitions1stReq, ok |-> FALSE])
    /\ calls' = Append(calls, [call |-> "UpdateMetaobjectDefinition", ok |-> FALSE])
    /\ hasError' = TRUE
    /\ pc' = "done"
    /\ UNCHANGED << state, data, remote, oldFieldDefinitions, fieldDefinitions1stReq,
                    fieldDefinitions2ndReq, recreateFieldDefinitions,
                    updatedMetaobjectDefinition, updateData, warned >>
    /\ UNCHANGED aux

\* the first call succeeds; without a second request the state is written
FirstRequestSucceeds ==
    /\ pc = "req1"
    /\ RemoteAccepts(remote, fieldDefinitions1stReq)
    /\ remote' = ApplyOperations(remote, fieldDefinitions1stReq)
    /\ sent' = Append(sent, [ops |-> fieldDefinitions1stReq, ok |-> TRUE])
    /\ calls' = Append(calls, [call |-> "UpdateMetaobjectDefinition", ok |-> TRUE])
    /\ updatedMetaobjectDefinition' \in Responses(remote')
    /\ updateData' \in convertMetaobjectDefinitionToResourceModel(updatedMetaobjectDefinition', data)
    /\ IF Len(fieldDefinitions2ndReq) > 0
       THEN pc' = "req2" /\ state' = state
       ELSE pc' = "done" /\ state' = updateData'
    /\ UNCHANGED << data, oldFieldDefinitions, fieldDefinitions1stReq, fieldDefinitions2ndReq,
                    recreateFieldDefinitions, hasError, warned >>
    /\ UNCHANGED aux

\* variant: the answer of the first request is written although the second failed
SecondRequestFails_WritesFirstAnswer ==
    /\ pc = "req2"
    /\ sent' = Append(sent, [ops |-> fieldDefinitions2ndReq, ok |-> FALSE])
    /\ calls' = Append(calls, [call |-> "UpdateMetaobjectDefinition", ok |-> FALSE])
    /\ hasError' = TRUE
    /\ state' = updateData
    /\ pc' = "done"
    /\ UNCHANGED << data, remote, oldFieldDefinitions, fieldDefinitions1stReq,
                    fieldDefinitions2ndReq, recreateFieldDefinitions,
                    updatedMetaobjectDefinition, updateData, warned >>
    /\ UNCHANGED aux

\* the second call returns an error
SecondRequestFails ==
    /\ pc = "req2"
    /\ sent' = Append(sent, [ops |-> fieldDefinitions2ndReq, ok |-> FALSE])
    /\ calls' = Append(calls, [call |-> "UpdateMetaobjectDefinition", ok |-> FALSE])
    /\ hasError' = TRUE
    /\ pc' = "done"
    /\ UNCHANGED << state, data, remote, oldFieldDefinitions, fieldDefinitions1stReq,
                    fieldDefinitions2ndReq, recreateFieldDefinitions,
                    updatedMetaobjectDefinition, updateData, warned >>
    /\ UNCHANGED aux

\* variant: the state is written from the answer of the first request
SecondRequestSucceeds_WritesFirstAnswer ==
    /\ pc = "req2"
    /\ RemoteAccepts(remote, fieldDefinitions2ndReq)
    /\ remote' = ApplyOperations(remote, fieldDefinitions2ndReq)
    /\ sent' = Append(sent, [ops |-> fieldDefinitions2ndReq, ok |-> TRUE])
    /\ calls' = Append(calls, [call |-> "UpdateMetaobjectDefinition", ok |-> TRUE])
    /\ updatedMetaobjectDefinition' \in Responses(remote')
    /\ state' = updateData
    /\ pc' = "done"
    /\ UNCHANGED << data, oldFieldDefinitions, fieldDefinitions1stReq, fieldDefinitions2ndReq,
                    recreateFieldDefinitions, updateData, hasError, warned >>
    /\ UNCHANGED aux

\* the second call succeeds and the state is written
SecondRequestSucceeds ==
    /\ pc = "req2"
    /\ RemoteAccepts(remote, fieldDefinitions2ndReq)
    /\ remote' = ApplyOperations(remote, fieldDefinitions2ndReq)
    /\ sent' = Append(sent, [ops |-> fieldDefinitions2ndReq, ok |-> TRUE])
    /\ calls' = Append(calls, [call |-> "UpdateMetaobjectDefinition", ok |-> TRUE])
    /\ updatedMetaobjectDefinition' \in Responses(remote')
    /\ updateData' \in convertMetaobjectDefinitionToResourceModel(updatedMetaobjectDefinition', data)
    /\ state' = updateData'
    /\ pc' = "done"
    /\ UNCHANGED << data, oldFieldDefinitions, fieldDefinitions1stReq, fieldDefinitions2ndReq,
                    recreateFieldDefinitions, hasError, warned >>
    /\ UNCHANGED aux

-----------------------------------------------------------------------------
(* The single-call handlers                                                 *)

\* the remote call returns an error: it is reported and the handler returns
CallFails(call, summary) ==
    /\ calls' = Append(calls, [call |-> call, ok |-> FALSE])
    /\ diagnostics' = Append(diagnostics, summary)
    /\ hasError' = TRUE
    /\ pc' = "returned"
    /\ UNCHANGED << answer, written >>

\* the remote call returns a; the handler sets one of the models in w, or none
CallReturns(call, a, w) ==
    /\ calls' = Append(calls, [call |-> call, ok |-> TRUE])
    /\ answer' = << a >>
    /\ written' \in w
    /\ pc' = "returned"
    /\ UNCHANGED << diagnostics, hasError >>

\* the handler returns with an error before any remote call
ReturnsEarly(summary) ==
    /\ diagnostics' = Append(diagnostics, summary)
    /\ hasError' = TRUE
    /\ pc' = "returned"
    /\ UNCHANGED << calls, answer, written >>

Serving(handler) == rpc = handler /\ pc = "start"

Kept == UNCHANGED << rpc, planOrState, config, env, settings, client, sent >> /\ UNCHANGED upd

MetaobjectDefinitionCreate ==
    /\ Serving("MetaobjectDefinitionResource.Create")
    /\ \/ CallFails("CreateMetaobjectDefinition", "Client Error")
       \/ \E definition \in MetaobjectDefinitions :
             CallReturns("CreateMetaobjectDefinition", definition,
                 { << m >> : m \in MetaobjectDefinitionResourceModelsOf(definition, planOrState) })
    /\ Kept

MetaobjectDefinitionRead ==
    /\ Serving("MetaobjectDefinitionResource.Read")
    /\ \/ CallFails("GetMetaobjectDefinition", "Client Error")
       \/ \E definition \in MetaobjectDefinitions :
             CallReturns("GetMetaobjectDefinition", definition,
                 { << m >> : m \in MetaobjectDefinitionResourceModelsOf(definition, planOrState) })
    /\ Kept

MetaobjectDefinitionDelete ==
    /\ Serving("MetaobjectDefinitionResource.Delete")
    /\ \/ CallFails("DeleteMetaobjectDefinition", "Client Error")
       \/ CallReturns("DeleteMetaobjectDefinition", "deleted", { << >> })
    /\ Kept

MetafieldDefinitionCreate ==
    /\ Serving("MetafieldDefinitionResource.Create")
    /\ \/ CallFails("CreateMetafieldDefinition", "Client Error")
       \/ \E definition \in MetafieldDefinitions :
             CallReturns("CreateMetafieldDefinition", definition,
                 { << convertMetafieldDefinitionToResourceModel(definition, planOrState) >> })
    /\ Kept

\* variant: Read asks a second time when the first call fails
MetafieldDefinitionRead_Retries ==
    /\ Serving("MetafieldDefinitionResource.Read")
    /\ \/ /\ calls' = calls \o << [call |-> "GetMetafieldDefinition", ok |-> FALSE],
                                [call |-> "GetMetafieldDefinition", ok |-> FALSE] >>
          /\ diagnostics' = Append(diagnostics, "Client Error")
          /\ hasError' = TRUE
          /\ pc' = "returned"
          /\ UNCHANGED << answer, written >>
       \/ \E definition \in MetafieldDefinitions :
             CallReturns("GetMetafieldDefinition", definition,
                 { << convertMetafieldDefinitionToResourceModel(definition, planOrState) >> })
    /\ Kept

MetafieldDefinitionRead ==
    /\ Serving("MetafieldDefinitionResource.Read")
    /\ \/ CallFails("GetMetafieldDefinition", "Client Error")
       \/ \E definition \in MetafieldDefinitions :
             CallReturns("GetMetafieldDefinition", definition,
                 { << convertMetafieldDefinitionToResourceModel(definition, planOrState) >> })
    /\ Kept

MetafieldDefinitionUpdate ==
    /\ Serving("MetafieldDefinitionResource.Update")
    /\ \/ CallFails("UpdateMetafieldDefinition", "Client Error")
       \/ \E definition \in MetafieldDefinitions :
             CallReturns("UpdateMetafieldDefinition", definition,
                 { << convertMetafieldDefinitionToResourceModel(definition, planOrState) >> })
    /\ Kept

MetafieldDefinitionDelete ==
    /\ Serving("MetafieldDefinitionResource.Delete")
    /\ \/ CallFails("DeleteMetafieldDefinition", "Client Error")
       \/ CallReturns("DeleteMetafieldDefinition", "deleted", { << >> })
    /\ Kept

PageCreate ==
    /\ Serving("PageResource.Create")
    /\ \/ CallFails("Page.Create", "Failed to create a page")
       \/ \E page \in Pages :
             CallReturns("Page.Create", page, { << convertPageToResourceModel(page) >> })
    /\ Kept

PageRead ==
    /\ Serving("PageResource.Read")
    /\ IF ParseUint(ValueString(planOrState.ID)).err # ""
       THEN ReturnsEarly("Failed to parse ID")
       ELSE \/ CallFails("Page.Get", "Failed to get page")
            \/ \E page \in Pages :
                  CallReturns("Page.Get", page, { << convertPageToResourceModel(page) >> })
    /\ Kept

PageUpdate ==
    /\ Serving("PageResource.Update")
    /\ IF ParseUint(ValueString(planOrState.ID)).err # ""
       THEN ReturnsEarly("Failed to parse ID")
       ELSE \/ CallFails("Page.Update", "Failed to update page")
            \/ \E page \in Pages :
                  CallReturns("Page.Update", page, { << convertPageToResourceModel(page) >> })
    /\ Kept

PageDelete ==
    /\ Serving("PageResource.Delete")
    /\ IF ParseUint(ValueString(planOrState.ID)).err # ""
       THEN ReturnsEarly("Failed to parse ID")
       ELSE \/ CallFails("Page.Delete", "Failed to delete page")
            \/ CallReturns("Page.Delete", "deleted", { << >> })
    /\ Kept

-----------------------------------------------------------------------------
(* The provider's Configure                                                 *)

\* variant: Configure returns at the first empty setting
Configure_FirstErrorOnly ==
    /\ Serving("ShopifyProvider.Configure")
    /\ LET resolved == [n \in SettingNames |-> readOrEnvDefault(config[n], env[n])]
           errors == UnableToFind(resolved, SettingOrder) IN
       /\ settings' = resolved
       /\ IF errors # << >>
          THEN /\ diagnostics' = diagnostics \o << Head(errors) >>
               /\ hasError' = TRUE
               /\ client' = FALSE
          ELSE \/ /\ diagnostics' = Append(diagnostics, << "Unable to create Shopify client", "" >>)
                  /\ hasError' = TRUE
                  /\ client' = FALSE
               \/ /\ client' = TRUE
                  /\ UNCHANGED << diagnostics, hasError >>
    /\ pc' = "returned"
    /\ UNCHANGED << rpc, planOrState, answer, written, config, env, sent, calls >>
    /\ UNCHANGED upd

\* the five settings are resolved and checked; goshopify.NewClient may refuse them
Configure ==
    /\ Serving("ShopifyProvider.Configure")
    /\ LET resolved == [n \in SettingNames |-> readOrEnvDefault(config[n], env[n])]
           errors == UnableToFind(resolved, SettingOrder) IN
       /\ settings' = resolved
       /\ IF errors # << >>
          THEN /\ diagnostics' = diagnostics \o errors
               /\ hasError' = TRUE
               /\ client' = FALSE
          ELSE \/ /\ diagnostics' = Append(diagnostics, << "Unable to create Shopify client", "" >>)
                  /\ hasError' = TRUE
                  /\ client' = FALSE
               \/ /\ client' = TRUE
                  /\ UNCHANGED << diagnostics, hasError >>
    /\ pc' = "returned"
    /\ UNCHANGED << rpc, planOrState, answer, written, config, env, sent, calls >>
    /\ UNCHANGED upd

Next ==
    \/ UpdateReconcile
    \/ FirstRequestFails
    \/ FirstRequestSucceeds
    \/ SecondRequestFails
    \/ SecondRequestSucceeds
    \/ MetaobjectDefinitionCreate
    \/ MetaobjectDefinitionRead
    \/ MetaobjectDefinitionDelete
    \/ MetafieldDefinitionCreate
    \/ MetafieldDefinitionRead
    \/ MetafieldDefinitionUpdate
    \/ MetafieldDefinitionDelete
    \/ PageCreate
    \/ PageRead
    \/ PageUpdate
    \/ PageDelete
    \/ Configure

Spec == Init /\ [][Next]_vars

-----------------------------------------------------------------------------
(* Properties of the reconciliation                                         *)

Reconciled == pc \in {"req1", "req2", "done"}

AllKeys == PlanKeys

EntriesOf(fieldDefinitions, k) ==
    {i \in DOMAIN fieldDefinitions : ValueString(fieldDefinitions[i].Key) = k}

TheEntry(fieldDefinitions, k) ==
    fieldDefinitions[CHOOSE i \in DOMAIN fieldDefinitions : ValueString(fieldDefinitions[i].Key) = k]

DeclaredOnce(fieldDefinitions, k) == Cardinality(EntriesOf(fieldDefinitions, k)) = 1

OpsOf(ops, kind, k) == {i \in DOMAIN ops : ops[i].kind = kind /\ ops[i].key = k}

OpsOn(ops, k) == {i \in DOMAIN ops : ops[i].key = k}

Occurrences(s, x) == {i \in DOMAIN s : s[i] = x}

Range(s) == {s[i] : i \in DOMAIN s}

RECURSIVE IsSubsequence(_, _)
IsSubsequence(s, t) ==
    IF s = << >> THEN TRUE
    ELSE IF t = << >> THEN FALSE
    ELSE IF Head(s) = Head(t) THEN IsSubsequence(Tail(s), Tail(t))
    ELSE IsSubsequence(s, Tail(t))

KeySeq(fieldDefinitions) ==
    [i \in DOMAIN fieldDefinitions |-> ValueString(fieldDefinitions[i].Key)]

OpKeySeq(ops) == [i \in DOMAIN ops |-> ops[i].key]

\* C1: with unique keys in both snapshots, applying the first request's
\* operations and then the second's to a remote that holds the prior fields
\* leaves exactly the planned keys, each with the type, name, description,
\* required flag and validations of its planned entry; and so does the remote
\* itself when Update ends without an error.
C1_Convergence ==
    (Reconciled /\ UniqueKeys(oldFieldDefinitions) /\ UniqueKeys(data)) =>
        LET final == ApplyOperations(
                        ApplyOperations(RemoteOf(oldFieldDefinitions), fieldDefinitions1stReq),
                        fieldDefinitions2ndReq) IN
        /\ DOMAIN final = Keys(data)
        /\ \A i \in DOMAIN data :
              final[ValueString(data[i].Key)] =
                  convertMetaobjectFieldDefinitionModelToCreateInput(data[i])
        /\ (pc = "done" /\ ~hasError) => remote = final

C1_Witness ==
    /\ pc = "done" /\ ~hasError
    /\ UniqueKeys(oldFieldDefinitions) /\ UniqueKeys(data)
    /\ Len(sent) = 2
    /\ \E i \in DOMAIN fieldDefinitions1stReq : fieldDefinitions1stReq[i].kind = "Update"
    /\ fieldDefinitions2ndReq # << >>
    /\ remote = RemoteOf(data)

\* C2: a key declared once in the prior and once in the planned snapshot, with
\* a different type, gets exactly one Delete in the first request, exactly one
\* Create in the second request, carrying the planned entry, no Update at all,
\* and one entry in the recreate list.
C2_TypeChangeRecreates ==
    Reconciled =>
        \A k \in AllKeys :
            ( /\ DeclaredOnce(oldFieldDefinitions, k)
              /\ DeclaredOnce(data, k)
              /\ TheEntry(oldFieldDefinitions, k).Type # TheEntry(data, k).Type ) =>
            /\ Cardinality(OpsOf(fieldDefinitions1stReq, "Delete", k)) = 1
            /\ Cardinality(OpsOn(fieldDefinitions2ndReq, k)) = 1
            /\ \E i \in DOMAIN fieldDefinitions2ndReq :
                  fieldDefinitions2ndReq[i] =
                      CreateOp(convertMetaobjectFieldDefinitionModelToCreateInput(TheEntry(data, k)))
            /\ OpsOf(fieldDefinitions1stReq, "Update", k) = {}
            /\ OpsOf(fieldDefinitions2ndReq, "Update", k) = {}
            /\ Cardinality(Occurrences(recreateFieldDefinitions, k)) = 1

C2_Witness ==
    /\ Reconciled
    /\ oldFieldDefinitions = << BaseField("a") >>
    /\ data = << [BaseField("a") EXCEPT !.Type = StringValue("multi_line_text_field")] >>
    /\ fieldDefinitions1stReq = << DeleteOp("a") >>
    /\ fieldDefinitions2ndReq = << CreateOp(convertMetaobjectFieldDefinitionModelToCreateInput(data[1])) >>
    /\ recreateFieldDefinitions = << "a" >>

\* C3: a key declared once in each snapshot with the same type but another
\* name, description, required flag or validations list gets exactly one
\* Update in the first request, carrying the planned attributes, nothing in
\* the second request and no entry in the recreate list.
C3_AttributeChangeUpdates ==
    Reconciled =>
        \A k \in AllKeys :
            ( /\ DeclaredOnce(oldFieldDefinitions, k)
              /\ DeclaredOnce(data, k)
              /\ TheEntry(oldFieldDefinitions, k).Type = TheEntry(data, k).Type
              /\ \/ TheEntry(oldFieldDefinitions, k).Name # TheEntry(data, k).Name
                 \/ TheEntry(oldFieldDefinitions, k).Description # TheEntry(data, k).Description
                 \/ TheEntry(oldFieldDefinitions, k).Required # TheEntry(data, k).Required
                 \/ TheEntry(oldFieldDefinitions, k).Validations # TheEntry(data, k).Validations ) =>
            /\ Cardinality(OpsOf(fieldDefinitions1stReq, "Update", k)) = 1
            /\ \E i \in DOMAIN fieldDefinitions1stReq :
                  fieldDefinitions1stReq[i] = UpdateOp(UpdateInput(TheEntry(data, k)))
            /\ OpsOn(fieldDefinitions2ndReq, k) = {}
            /\ Occurrences(recreateFieldDefinitions, k) = {}

C3_Witness ==
    /\ Reconciled
    /\ oldFieldDefinitions = << BaseField("a") >>
    /\ data = << [BaseField("a") EXCEPT !.Name = StringValue("New")] >>
    /\ fieldDefinitions1stReq = << UpdateOp(UpdateInput(data[1])) >>
    /\ fieldDefinitions2ndReq = << >>

\* C4: when the planned snapshot holds exactly the entries of the prior one
\* (unique keys, in the same or another order), both requests' operation lists
\* and the recreate list are empty.
C4_Idempotence ==
    ( /\ Reconciled
      /\ UniqueKeys(oldFieldDefinitions) /\ UniqueKeys(data)
      /\ Range(oldFieldDefinitions) = Range(data) ) =>
        /\ fieldDefinitions1stReq = << >>
        /\ fieldDefinitions2ndReq = << >>
        /\ recreateFieldDefinitions = << >>

C4_Witness ==
    /\ Reconciled
    /\ Len(data) = 2 /\ UniqueKeys(data)
    /\ oldFieldDefinitions = << data[2], data[1] >>
    /\ fieldDefinitions1stReq = << >>

\* C5: with an empty prior snapshot and unique planned keys, the first request
\* holds exactly one Create per planned entry and nothing else, the second
\* request and the recreate list are empty.
C5_EmptyPriorCreatesAll ==
    (Reconciled /\ oldFieldDefinitions = << >> /\ UniqueKeys(data)) =>
        /\ Len(fieldDefinitions1stReq) = Len(data)
        /\ \A i \in DOMAIN data :
              Cardinality(Occurrences(fieldDefinitions1stReq,
                  CreateOp(convertMetaobjectFieldDefinitionModelToCreateInput(data[i])))) = 1
        /\ fieldDefinitions2ndReq = << >>
        /\ recreateFieldDefinitions = << >>

C5_Witness ==
    /\ Reconciled
    /\ oldFieldDefinitions = << >>
    /\ Len(data) = 2 /\ UniqueKeys(data)
    /\ Len(fieldDefinitions1stReq) = 2

\* C6: with unique prior keys and an empty planned snapshot, the first request
\* holds exactly one Delete per prior key and nothing else and the second is
\* empty; in general every prior key that no planned entry has gets exactly
\* one Delete and no other operation, and every other Delete is the Delete of
\* a recreated key.
C6_RemovedKeysDeleted ==
    Reconciled =>
        /\ (UniqueKeys(oldFieldDefinitions) /\ data = << >>) =>
              /\ Len(fieldDefinitions1stReq) = Len(oldFieldDefinitions)
              /\ \A i \in DOMAIN fieldDefinitions1stReq : fieldDefinitions1stReq[i].kind = "Delete"
              /\ fieldDefinitions2ndReq = << >>
        /\ \A k \in Keys(oldFieldDefinitions) \ Keys(data) :
              /\ Cardinality(OpsOf(fieldDefinitions1stReq, "Delete", k)) = 1
              /\ Cardinality(OpsOn(fieldDefinitions1stReq, k)) = 1
              /\ OpsOn(fieldDefinitions2ndReq, k) = {}
        /\ \A i \in DOMAIN fieldDefinitions1stReq :
              fieldDefinitions1stReq[i].kind = "Delete" =>
                  /\ fieldDefinitions1stReq[i].key \in Keys(oldFieldDefinitions)
                  /\ fieldDefinitions1stReq[i].key \in Keys(data) =>
                        Occurrences(recreateFieldDefinitions, fieldDefinitions1stReq[i].key) # {}

C6_Witness ==
    /\ Reconciled
    /\ Len(oldFieldDefinitions) = 2
    /\ data = << >>
    /\ fieldDefinitions1stReq = << DeleteOp("b"), DeleteOp("a") >>

\* C7: the operations of the first request for planned keys (Creates, Updates
\* and the Deletes of recreated keys) follow one another in the order of the
\* planned snapshot, and so do the Creates of the second request: each key
\* sequence is a subsequence of the planned key sequence.
C7_PlannedOrder ==
    Reconciled =>
        LET Planned(op) == op.key \in Keys(data) IN
        /\ IsSubsequence(OpKeySeq(SelectSeq(fieldDefinitions1stReq, Planned)), KeySeq(data))
        /\ IsSubsequence(OpKeySeq(fieldDefinitions2ndReq), KeySeq(data))

C7_Witness ==
    /\ Reconciled
    /\ KeySeq(oldFieldDefinitions) = << "a", "b" >>
    /\ KeySeq(data) = << "b", "a" >>
    /\ OpKeySeq(fieldDefinitions1stReq) = << "b", "a" >>
    /\ OpKeySeq(fieldDefinitions2ndReq) = << "b", "a" >>

C7_WitnessMixed ==
    /\ Reconciled
    /\ KeySeq(data) = << "b", "a" >>
    /\ Len(fieldDefinitions1stReq) = 2
    /\ fieldDefinitions1stReq[1].kind = "Update" /\ fieldDefinitions1stReq[1].key = "b"
    /\ fieldDefinitions1stReq[2].kind = "Create" /\ fieldDefinitions1stReq[2].key = "a"

HasDeleteAndCreate(ops, k) == OpsOf(ops, "Delete", k) # {} /\ OpsOf(ops, "Create", k) # {}

\* C8: neither request holds both a Delete and a Create of the same key.
C8_NoDeleteAndCreateInOneRequest ==
    Reconciled =>
        \A k \in AllKeys :
            /\ ~HasDeleteAndCreate(fieldDefinitions1stReq, k)
            /\ ~HasDeleteAndCreate(fieldDefinitions2ndReq, k)

\* the same, for planned snapshots that declare every key once
C8_ForUniquePlannedKeys ==
    UniqueKeys(data) => C8_NoDeleteAndCreateInOneRequest

C8_ForUniquePlannedKeysWitness ==
    /\ Reconciled /\ UniqueKeys(data)
    /\ fieldDefinitions2ndReq # << >>
    /\ \E i \in DOMAIN fieldDefinitions1stReq : fieldDefinitions1stReq[i].kind = "Create"

C10_ConvertedInPlannedOrder ==
    (sent # << >> /\ sent[1].ok) =>
        \A x, y \in DOMAIN updateData : \A i, j \in DOMAIN data :
            ( /\ data[i].Key = updateData[x].Key
              /\ data[j].Key = updateData[y].Key
              /\ i < j ) => x < y

C10_Witness ==
    /\ pc = "done" /\ ~hasError
    /\ Len(updateData) = 2
    /\ KeySeq(updateData) = KeySeq(data)
    /\ updatedMetaobjectDefinition[1].Key = ValueString(data[2].Key)
    /\ updatedMetaobjectDefinition[2].Key = ValueString(data[1].Key)
    /\ state = updateData

\* the outputs the reconciliation can produce for a pair of snapshots: one for
\* every order in which the unmatched prior keys are ranged over
ReconcileOutcomes(prior, desired) ==
    LET acc == ReconcileLoop(EmptyAcc(prior), desired) IN
    { [req1 |-> acc.req1 \o RemovalDeletes(acc.map, order),
       req2 |-> acc.req2,
       recreate |-> acc.recreate] : order \in MapRangeOrders(DOMAIN acc.map) }

ObservedOutcome ==
    [req1 |-> fieldDefinitions1stReq, req2 |-> fieldDefinitions2ndReq,
     recreate |-> recreateFieldDefinitions]

\* C11: after an Update that ended without error against a remote that
\* applied every operation, reconciling the stored field definitions with the
\* same planned snapshot (unique keys) yields no operation and no recreated key.
C11_NoSpuriousDrift ==
    (pc = "done" /\ ~hasError /\ UniqueKeys(data)) =>
        ReconcileOutcomes(state, data) = { [req1 |-> << >>, req2 |-> << >>, recreate |-> << >>] }

\* the same, for planned entries that declare a name and no empty validations list
C11_ForDeclaredNamesAndNoEmptyValidations ==
    ( /\ \A i \in DOMAIN data : ~data[i].Name.null
      /\ \A i \in DOMAIN data : data[i].Validations # Slice(<< >>) ) => C11_NoSpuriousDrift

\* C12: the same pair of snapshots always gives the same first request, the
\* same second request and the same recreate list.
C12_SameOutputsOnSameInputs ==
    Reconciled => ReconcileOutcomes(oldFieldDefinitions, data) = { ObservedOutcome }

\* C12 as amended: the reconciliation yields a result for every pair of
\* snapshots and reports no error; all its possible results on one pair have
\* the same second request and recreate list, and first requests that agree
\* up to the order of the trailing removal Deletes.
C12_DeterminedUpToRemovalOrder ==
    /\ pc = "idle" => ReconcileOutcomes(state, data) # {}
    /\ Reconciled =>
          LET removed == Cardinality(Keys(oldFieldDefinitions) \ Keys(data))
              kept == Len(fieldDefinitions1stReq) - removed
              outcomes == ReconcileOutcomes(oldFieldDefinitions, data) IN
          /\ sent = << >> => ~hasError
          /\ ObservedOutcome \in outcomes
          /\ \A o \in outcomes :
                /\ o.req2 = fieldDefinitions2ndReq
                /\ o.recreate = recreateFieldDefinitions
                /\ Len(o.req1) = Len(fieldDefinitions1stReq)
                /\ SubSeq(o.req1, 1, kept) = SubSeq(fieldDefinitions1stReq, 1, kept)
                /\ Range(o.req1) = Range(fieldDefinitions1stReq)

C12_Witness ==
    /\ Reconciled
    /\ Cardinality(ReconcileOutcomes(oldFieldDefinitions, data)) = 2
    /\ fieldDefinitions1stReq = << DeleteOp("b"), DeleteOp("a") >>

C12_WitnessRecreate ==
    /\ Reconciled
    /\ Len(fieldDefinitions2ndReq) = 2
    /\ Len(fieldDefinitions1stReq) = 2

\* C14: the warning is raised exactly when a key is recreated; it is no error:
\* an error is only ever reported for a request that failed, and Update goes
\* on to send its first request.
C14_RecreateNoticeIsAdvisory ==
    Reconciled =>
        /\ warned <=> recreateFieldDefinitions # << >>
        /\ hasError <=> (sent # << >> /\ ~sent[Len(sent)].ok)
        /\ pc = "req1" => ENABLED (FirstRequestFails \/ FirstRequestSucceeds)
        /\ pc = "done" => sent # << >>

C14_Witness ==
    /\ pc = "done" /\ ~hasError
    /\ warned
    /\ recreateFieldDefinitions = << "a" >>
    /\ Len(sent) = 2

C14_WitnessNoRecreate ==
    /\ pc = "done" /\ ~hasError
    /\ ~warned
    /\ fieldDefinitions1stReq # << >>

\* C16: in every reconciliation the planned keys are non-empty and no
\* snapshot, planned or prior, holds a key twice.
C16_KeysNonEmptyAndUnique ==
    Reconciled =>
        /\ \A i \in DOMAIN data : ValueString(data[i].Key) # ""
        /\ UniqueKeys(data)
        /\ UniqueKeys(oldFieldDefinitions)

IsRemovalDelete(op) == op.kind = "Delete" /\ op.key \notin Keys(data)

\* C17: in the first request every removal Delete (of a prior key the plan
\* does not have) stands behind every operation produced for a planned entry.
C17_RemovalDeletesLast ==
    Reconciled =>
        \A i, j \in DOMAIN fieldDefinitions1stReq :
            (IsRemovalDelete(fieldDefinitions1stReq[i]) /\ ~IsRemovalDelete(fieldDefinitions1stReq[j]))
                => j < i

C17_Witness ==
    /\ Reconciled
    /\ Len(fieldDefinitions1stReq) = 2
    /\ fieldDefinitions1stReq[1].kind \in {"Create", "Update", "Delete"}
    /\ fieldDefinitions1stReq[1].key = "b"
    /\ fieldDefinitions1stReq[2] = DeleteOp("a")
    /\ Keys(data) = {"b"}

\* C19: a key declared once in each snapshot with structurally identical
\* entries occurs in no operation of either request and not in the recreate
\* list, whatever happens to the other keys.
C19_UnchangedKeyUntouched ==
    Reconciled =>
        \A k \in AllKeys :
            ( /\ DeclaredOnce(oldFieldDefinitions, k)
              /\ DeclaredOnce(data, k)
              /\ TheEntry(oldFieldDefinitions, k) = TheEntry(data, k) ) =>
            /\ OpsOn(fieldDefinitions1stReq, k) = {}
            /\ OpsOn(fieldDefinitions2ndReq, k) = {}
            /\ Occurrences(recreateFieldDefinitions, k) = {}

C19_Witness ==
    /\ Reconciled
    /\ Len(data) = 2 /\ Len(oldFieldDefinitions) = 2
    /\ DeclaredOnce(oldFieldDefinitions, "a") /\ DeclaredOnce(data, "a")
    /\ TheEntry(oldFieldDefinitions, "a") = TheEntry(data, "a")
    /\ OpsOn(fieldDefinitions1stReq, "a") = {}
    /\ fieldDefinitions1stReq = << DeleteOp("b") >>
    /\ fieldDefinitions2ndReq # << >>

\* C20: the second request holds only Creates, their keys are the recreate
\* list, entry by entry; every Delete is in the first request.
C20_SecondRequestIsTheRecreates ==
    Reconciled =>
        /\ \A i \in DOMAIN fieldDefinitions2ndReq : fieldDefinitions2ndReq[i].kind = "Create"
        /\ OpKeySeq(fieldDefinitions2ndReq) = recreateFieldDefinitions
        /\ \A k \in Range(recreateFieldDefinitions) : OpsOf(fieldDefinitions1stReq, "Delete", k) # {}

C20_Witness ==
    /\ Reconciled
    /\ recreateFieldDefinitions = << "b", "a" >>
    /\ OpKeySeq(fieldDefinitions2ndReq) = << "b", "a" >>
    /\ fieldDefinitions1stReq = << DeleteOp("b"), DeleteOp("a") >>

-----------------------------------------------------------------------------
(* Properties of the lifecycle handlers and of Configure                    *)

LifecycleHandlers == SingleCallHandlers \cup { "MetaobjectDefinitionResource.Update" }

Returned == pc \in { "done", "returned" }

\* C13: every lifecycle operation of every resource, once it has returned,
\* has issued exactly one remote call.
C13_ExactlyOneCallPerOperation ==
    (rpc \in LifecycleHandlers /\ Returned) => Len(calls) = 1

\* C13 as amended: the calls of an operation are issued one after the other
\* and none follows a failed one; an operation that has returned has issued
\* one call, except that the metaobject-definition Update has issued two when
\* a key is recreated and its first call succeeded, and that Read, Update and
\* Delete of a page have issued none when they report 'Failed to parse ID'.
C13_CallsPerOperation ==
    rpc \in LifecycleHandlers =>
        /\ \A i \in 1..(Len(calls) - 1) : calls[i].ok
        /\ ~Returned => Len(calls) <= 1
        /\ diagnostics = << "Failed to parse ID" >> =>
              rpc \in { "PageResource.Read", "PageResource.Update", "PageResource.Delete" }
        /\ Returned =>
              Len(calls) =
                 IF diagnostics = << "Failed to parse ID" >> THEN 0
                 ELSE IF /\ rpc = "MetaobjectDefinitionResource.Update"
                         /\ recreateFieldDefinitions # << >>
                         /\ calls[1].ok THEN 2
                 ELSE 1

C13_Witness ==
    /\ rpc = "MetaobjectDefinitionResource.Update"
    /\ pc = "done"
    /\ Len(calls) = 2
    /\ calls[1].ok /\ ~calls[2].ok

C13_WitnessNoCall ==
    /\ rpc = "PageResource.Delete"
    /\ pc = "returned"
    /\ ValueString(planOrState.ID) = << "-", "1" >>
    /\ calls = << >>

C13_WitnessOneCall ==
    /\ rpc = "MetafieldDefinitionResource.Read"
    /\ pc = "returned"
    /\ calls = << [call |-> "GetMetafieldDefinition", ok |-> FALSE] >>

\* the rule of the claim for one description: null exactly when the remote
\* returned "" and the model handed over holds a null description for it,
\* otherwise the remote's string; and a description that is echoed is kept
DescriptionRule(remoteDescription, hasModel, modelDescription, writtenDescription) ==
    /\ writtenDescription.null <=> (remoteDescription = "" /\ hasModel /\ modelDescription.null)
    /\ ~writtenDescription.null => writtenDescription = StringValue(remoteDescription)
    /\ (hasModel /\ remoteDescription = ValueString(modelDescription)) =>
            writtenDescription = modelDescription

\* the rule for every field of an answer, against the fields handed over
\* (a field whose key the model does not hold has no description there)
FieldDescriptionRule(returnedFields, modelFields, writtenFields) ==
    \A i \in DOMAIN returnedFields :
        LET k == returnedFields[i].Key
            has == EntriesOf(modelFields, k) # {} IN
        /\ DeclaredOnce(writtenFields, k)
        /\ DescriptionRule(returnedFields[i].Description, has,
                IF has THEN TheEntry(modelFields, k).Description ELSE StringNull,
                TheEntry(writtenFields, k).Description)

\* C15: the description written to state follows the rule for the metaobject
\* definition, for each of its field definitions (in Create, Read and Update)
\* and for the metafield definition (in Create, Read and Update).
C15_DescriptionReadBack ==
    /\ ( /\ rpc \in { "MetaobjectDefinitionResource.Create", "MetaobjectDefinitionResource.Read" }
         /\ written # << >> ) =>
            /\ DescriptionRule(answer[1].Description, TRUE, planOrState.Description,
                               written[1].Description)
            /\ FieldDescriptionRule(answer[1].FieldDefinitions, planOrState.FieldDefinitions,
                                    written[1].FieldDefinitions)
    /\ ( /\ rpc \in { "MetafieldDefinitionResource.Create", "MetafieldDefinitionResource.Read",
                      "MetafieldDefinitionResource.Update" }
         /\ written # << >> ) =>
            DescriptionRule(answer[1].Description, TRUE, planOrState.Description,
                            written[1].Description)
    /\ (pc = "done" /\ ~hasError /\ UniqueKeys(data)) =>
            FieldDescriptionRule(updatedMetaobjectDefinition, data, state)

C15_Witness ==
    /\ rpc = "MetaobjectDefinitionResource.Read"
    /\ written # << >>
    /\ planOrState.Description = StringNull
    /\ answer[1].Description = ""
    /\ written[1].Description = StringNull
    /\ Len(answer[1].FieldDefinitions) = 2
    /\ Len(planOrState.FieldDefinitions) = 1
    /\ planOrState.FieldDefinitions[1].Description = StringNull
    /\ \A i \in 1..2 : answer[1].FieldDefinitions[i].Description = ""
    /\ { written[1].FieldDefinitions[i].Description : i \in 1..2 } = { StringNull, StringValue("") }

C15_WitnessMetafield ==
    /\ rpc = "MetafieldDefinitionResource.Update"
    /\ written # << >>
    /\ planOrState.Description = StringNull
    /\ answer[1].Description = ""
    /\ written[1].Description = StringNull

C15_WitnessRemoteValue ==
    /\ rpc = "MetafieldDefinitionResource.Read"
    /\ written # << >>
    /\ planOrState.Description = StringNull
    /\ answer[1].Description = "D"
    /\ written[1].Description = StringValue("D")

C15_WitnessUpdate ==
    /\ pc = "done" /\ ~hasError
    /\ Len(state) = 2
    /\ state[1].Description = StringNull
    /\ state[2].Description = StringValue("")

\* the value the claim gives a setting: the configured one when set, else the
\* environment variable
ResolvedValue(n) == IF config[n].null THEN env[n] ELSE config[n].value

\* C18: Configure resolves each setting to the configured value when one is
\* set and else to its environment variable; it reports one error for each
\* empty setting, all of them, and then hands over no client; a client is
\* handed over only when all five settings are non-empty.
C18_ConfigureResolvesAndChecks ==
    (rpc = "ShopifyProvider.Configure" /\ pc = "returned") =>
        /\ \A n \in SettingNames : settings[n] = ResolvedValue(n)
        /\ \A n \in SettingNames :
              Cardinality(Occurrences(diagnostics, << "Unable to find", n >>)) =
                 IF ResolvedValue(n) = "" THEN 1 ELSE 0
        /\ (\E n \in SettingNames : ResolvedValue(n) = "") =>
              /\ ~client
              /\ Len(diagnostics) = Cardinality({ n \in SettingNames : ResolvedValue(n) = "" })
        /\ client => \A n \in SettingNames : ResolvedValue(n) # ""
        /\ client => diagnostics = << >>

C18_Witness ==
    /\ rpc = "ShopifyProvider.Configure" /\ pc = "returned"
    /\ config["shop"] = StringValue("") /\ env["shop"] = "e"
    /\ config["api_key"] = StringNull /\ env["api_key"] = ""
    /\ diagnostics = << << "Unable to find", "shop" >>, << "Unable to find", "api_key" >> >>
    /\ ~client

C18_WitnessClient ==
    /\ rpc = "ShopifyProvider.Configure" /\ pc = "returned"
    /\ config["shop"] = StringNull /\ env["shop"] = "e"
    /\ config["api_key"] = StringValue("v")
    /\ settings["shop"] = "e" /\ settings["api_key"] = "v"
    /\ client

-----------------------------------------------------------------------------
(* Properties of the Update operations, of the state Update writes, of the  *)
(* converted field list and of the page identifier                          *)

\* the mutable attributes of a planned entry, as an Update is to carry them
MutableAttributesOf(fieldDefinition) ==
    [Key |-> fieldDefinition.Key.value,
     Name |-> IF fieldDefinition.Name.null THEN NilPointer
              ELSE [nil |-> FALSE, v |-> fieldDefinition.Name.value],
     Description |-> IF fieldDefinition.Description.null THEN NilPointer
                     ELSE [nil |-> FALSE, v |-> fieldDefinition.Description.value],
     Required |-> fieldDefinition.Required.value,
     Validations |-> [i \in DOMAIN fieldDefinition.Validations.elems |->
                         [Name |-> fieldDefinition.Validations.elems[i].Name.value,
                          Value |-> fieldDefinition.Validations.elems[i].Value.value]]]

\* C21: every Update carries the key and the name, description, required and
\* validations of a planned entry of that key and no type; it is in the first
\* request, and the planned entry has the type of the prior entry of the key.
C21_UpdateCarriesMutableAttributes ==
    Reconciled =>
        /\ \A i \in DOMAIN fieldDefinitions2ndReq : fieldDefinitions2ndReq[i].kind # "Update"
        /\ \A i \in DOMAIN fieldDefinitions1stReq :
              LET op == fieldDefinitions1stReq[i] IN
              op.kind = "Update" =>
                 /\ "Type" \notin DOMAIN op.input
                 /\ DeclaredOnce(oldFieldDefinitions, op.key)
                 /\ \E j \in EntriesOf(data, op.key) :
                       /\ op.input = MutableAttributesOf(data[j])
                       /\ data[j].Type = TheEntry(oldFieldDefinitions, op.key).Type
                       /\ data[j] # TheEntry(oldFieldDefinitions, op.key)

C21_Witness ==
    /\ Reconciled
    /\ Len(fieldDefinitions1stReq) = 2
    /\ fieldDefinitions1stReq[1].kind = "Update"
    /\ fieldDefinitions1stReq[1].key = "a"
    /\ fieldDefinitions1stReq[1].input.Validations = << [Name |-> "min", Value |-> "1"] >>
    /\ fieldDefinitions1stReq[2].kind = "Update"
    /\ fieldDefinitions1stReq[2].input.Name = NilPointer

\* C22: the stored state differs from the prior one only after Update ended
\* with every request answered without error, and then it is a conversion of
\* the last answer; after a failed first request nothing more is sent, an
\* error is reported and the stored state is the prior one.
C22_StateWrittenOnlyOnSuccess ==
    Reconciled =>
        /\ (pc # "done" \/ hasError) => state = oldFieldDefinitions
        /\ (pc = "done" /\ ~hasError) =>
              /\ \A i \in DOMAIN sent : sent[i].ok
              /\ Len(sent) = (IF fieldDefinitions2ndReq # << >> THEN 2 ELSE 1)
              /\ state \in convertMetaobjectDefinitionToResourceModel(updatedMetaobjectDefinition, data)
              /\ updatedMetaobjectDefinition \in Responses(remote)
        /\ (sent # << >> /\ ~sent[1].ok) =>
              /\ Len(sent) = 1
              /\ pc = "done"
              /\ hasError
              /\ state = oldFieldDefinitions

C22_Witness ==
    /\ pc = "done" /\ ~hasError
    /\ Len(sent) = 2
    /\ state # oldFieldDefinitions
    /\ Len(state) = 2
    /\ recreateFieldDefinitions = << "b" >>

C22_WitnessFirstFails ==
    /\ pc = "done" /\ hasError
    /\ Len(sent) = 1
    /\ fieldDefinitions2ndReq # << >>
    /\ state = oldFieldDefinitions

\* C23: when the second request fails after the first succeeded, an error is
\* reported and the stored state stays the prior one: it holds every recreated
\* key with its prior type, while the remote holds none of these keys and
\* holds the result of the whole first request; Update sends nothing more.
C23_SecondRequestFailureLeavesState ==
    (Len(sent) = 2 /\ ~sent[2].ok) =>
        /\ sent[1].ok
        /\ pc = "done"
        /\ hasError
        /\ state = oldFieldDefinitions
        /\ Len(calls) = 2
        /\ remote = ApplyOperations(RemoteOf(oldFieldDefinitions), fieldDefinitions1stReq)
        /\ recreateFieldDefinitions # << >>
        /\ \A k \in Range(recreateFieldDefinitions) :
              /\ k \notin DOMAIN remote
              /\ DeclaredOnce(state, k)
              /\ \E j \in EntriesOf(data, k) : TheEntry(state, k).Type # data[j].Type

C23_Witness ==
    /\ Len(sent) = 2 /\ ~sent[2].ok
    /\ recreateFieldDefinitions = << "a" >>
    /\ Keys(state) = { "a", "b" }
    /\ DOMAIN remote = { "b" }
    /\ OpsOf(fieldDefinitions1stReq, "Update", "b") # {}

\* C24: Update sends the first request in every case and the second one
\* exactly when the second request holds an operation.
C24_SecondIffSecondaryNonEmpty ==
    pc = "done" =>
        /\ Len(sent) >= 1
        /\ Len(sent) = 2 <=> fieldDefinitions2ndReq # << >>

\* C24 as amended: Update sends the first request in every case, also an
\* empty one, and the second one exactly when the second request holds an
\* operation and the first request was answered without error.
C24_SecondIffFirstSucceeded ==
    Reconciled =>
        /\ pc = "req1" <=> sent = << >>
        /\ sent # << >> => sent[1].ops = fieldDefinitions1stReq
        /\ pc = "req2" <=> (Len(sent) = 1 /\ sent[1].ok /\ fieldDefinitions2ndReq # << >>)
        /\ pc = "done" =>
              (Len(sent) = 2 <=> (fieldDefinitions2ndReq # << >> /\ sent[1].ok))
        /\ Len(sent) = 2 => sent[2].ops = fieldDefinitions2ndReq

C24_Witness ==
    /\ pc = "done"
    /\ fieldDefinitions1stReq = << >>
    /\ fieldDefinitions2ndReq = << >>
    /\ Len(sent) = 1
    /\ sent[1].ok
    /\ Len(data) = 2

C24_WitnessSecond ==
    /\ pc = "done"
    /\ Len(sent) = 2
    /\ Len(fieldDefinitions2ndReq) = 1

\* the converted list holds, for every key, as many entries as the returned
\* list, each with the returned name, type and required flag
IsPermutationOfReturned(returned, converted) ==
    /\ Len(converted) = Len(returned)
    /\ \A i \in DOMAIN returned :
          Cardinality({ j \in DOMAIN converted :
                            /\ converted[j].Key = StringValue(returned[i].Key)
                            /\ converted[j].Name = StringValue(returned[i].Name)
                            /\ converted[j].Type = StringValue(returned[i].Type)
                            /\ converted[j].Required = BoolValue(returned[i].Required) })
             = Cardinality({ j \in DOMAIN returned : returned[j].Key = returned[i].Key })
    /\ \A j \in DOMAIN converted :
          \E i \in DOMAIN returned : converted[j].Key = StringValue(returned[i].Key)

\* C25: the converted field list is a permutation of the returned one, in
\* Create and Read (any returned list, also with keys the plan or state does
\* not hold) and in Update.
C25_ConvertedIsPermutationOfReturned ==
    /\ ( /\ rpc \in { "MetaobjectDefinitionResource.Create", "MetaobjectDefinitionResource.Read" }
         /\ written # << >> ) =>
            IsPermutationOfReturned(answer[1].FieldDefinitions, written[1].FieldDefinitions)
    /\ (sent # << >> /\ sent[1].ok) =>
            IsPermutationOfReturned(updatedMetaobjectDefinition, updateData)

C25_Witness ==
    /\ rpc = "MetaobjectDefinitionResource.Read"
    /\ written # << >>
    /\ Len(answer[1].FieldDefinitions) = 2
    /\ Keys(planOrState.FieldDefinitions) = { "b" }
    /\ answer[1].FieldDefinitions[1].Key = "a"
    /\ answer[1].FieldDefinitions[2].Key = "b"
    /\ Len(written[1].FieldDefinitions) = 2

C25_WitnessUndeclaredOnly ==
    /\ rpc = "MetaobjectDefinitionResource.Create"
    /\ written # << >>
    /\ planOrState.FieldDefinitions = << >>
    /\ KeySeq(written[1].FieldDefinitions) = << "b", "a" >>

\* the identifiers of the universe that are base-10 unsigned 64-bit integers
Base10Uint64Texts ==
    { << "7" >>,
      << "0", "4", "2" >>,
      << "1", "8", "4", "4", "6", "7", "4", "4", "0", "7",
         "3", "7", "0", "9", "5", "5", "1", "6", "1", "5" >> }

PageHandlersById == { "PageResource.Read", "PageResource.Update", "PageResource.Delete" }

\* C26: Read, Update and Delete of a page whose id is not a base-10 unsigned
\* 64-bit integer report 'Failed to parse ID', issue no remote call and set
\* no state.
C26_UnparsableIdIsRejected ==
    ( /\ rpc \in PageHandlersById
      /\ pc = "returned"
      /\ ValueString(planOrState.ID) \notin Base10Uint64Texts ) =>
        /\ diagnostics = << "Failed to parse ID" >>
        /\ hasError
        /\ calls = << >>
        /\ answer = << >>
        /\ written = << >>

C26_Witness ==
    /\ rpc = "PageResource.Update"
    /\ pc = "returned"
    /\ Len(ValueString(planOrState.ID)) = Len(MaxUint64)
    /\ ValueString(planOrState.ID) \notin Base10Uint64Texts
    /\ diagnostics = << "Failed to parse ID" >>
    /\ calls = << >>

C26_WitnessNullId ==
    /\ rpc = "PageResource.Read"
    /\ pc = "returned"
    /\ planOrState.ID.null
    /\ diagnostics = << "Failed to parse ID" >>

C26_WitnessParsed ==
    /\ rpc = "PageResource.Delete"
    /\ pc = "returned"
    /\ ValueString(planOrState.ID) = << "0", "4", "2" >>
    /\ calls = << [call |-> "Page.Delete", ok |-> TRUE] >>

=============================================================================
